---- MODULE Spec2Model ----
(***************************************************************************)
(* cachito/workers/scm.py: the SCM base class and its Git implementation.  *)
(* A worker process builds Git(url, ref) and calls fetch_source(), which   *)
(* leaves <archives_dir>/<repo name>/<ref>.tar.gz in the shared sources    *)
(* directory, by a fresh clone or by updating a previously cached archive. *)
(*                                                                         *)
(* Text (URLs, refs, file names) is a sequence of one-character strings,   *)
(* a path is a sequence of such segments.  None and the empty string are   *)
(* both <<>> (both are falsy in the `if not self._x` tests of the code).   *)
(***************************************************************************)
EXTENDS Integers, Sequences, FiniteSets, TLC

(* ------------------------------ bounds -------------------------------- *)

\* Timestamps handed out by the file system; no file is written once the
\* clock has reached MaxClock.
MaxClock == 6

(* ------------------------- text helpers -------------------------------- *)

Slash == "/"

\* s[i..] (Python slice s[i-1:]), empty when i is past the end.
From(s, i) == IF i > Len(s) THEN <<>> ELSE SubSeq(s, i, Len(s))

\* s[..i] (Python slice s[:i]).
Upto(s, i) == IF i < 1 THEN <<>> ELSE SubSeq(s, 1, i)

\* str.startswith / str.endswith
StartsWith(s, pre) == Len(pre) <= Len(s) /\ SubSeq(s, 1, Len(pre)) = pre
EndsWith(s, suf) ==
    Len(suf) <= Len(s) /\ SubSeq(s, Len(s) - Len(suf) + 1, Len(s)) = suf

\* str.find of one character, 1-based; 0 when absent.
Find(s, c) ==
    IF \E i \in 1..Len(s) : s[i] = c
    THEN CHOOSE i \in 1..Len(s) : s[i] = c /\ \A j \in 1..(i - 1) : s[j] # c
    ELSE 0

\* str.strip(c): every leading and trailing c removed.
RECURSIVE LStrip(_, _)
LStrip(s, c) == IF s # <<>> /\ Head(s) = c THEN LStrip(Tail(s), c) ELSE s
RECURSIVE RStrip(_, _)
RStrip(s, c) ==
    IF s # <<>> /\ s[Len(s)] = c THEN RStrip(SubSeq(s, 1, Len(s) - 1), c) ELSE s
Strip(s, c) == RStrip(LStrip(s, c), c)

\* str.split(c): always at least one piece, empty pieces kept.
RECURSIVE Split(_, _)
Split(s, c) ==
    LET i == Find(s, c)
    IN  IF i = 0 THEN <<s>> ELSE <<Upto(s, i - 1)>> \o Split(From(s, i + 1), c)

\* os.path.join(base, *pieces) for pieces that hold no separator: an empty
\* piece adds no directory level.
RECURSIVE PathJoin(_, _)
PathJoin(base, pieces) ==
    IF pieces = <<>> THEN base
    ELSE PathJoin(IF Head(pieces) = <<>> THEN base ELSE Append(base, Head(pieces)),
                  Tail(pieces))

\* The cut of s before the first of the characters in stops.
CutAt(s, stops) ==
    LET hits == {i \in 1..Len(s) : s[i] \in stops}
    IN  IF hits = {} THEN s ELSE Upto(s, (CHOOSE i \in hits : \A j \in hits : i <= j) - 1)

(* --------------------- urllib.parse.urlparse(url).path ----------------- *)

\* urllib.parse.scheme_chars
SchemeChars ==
    {"a", "b", "c", "d", "e", "f", "g", "h", "i", "j", "k", "l", "m", "n", "o", "p", "q", "r", "s", "t", "u", "v", "w", "x", "y", "z", "0", "1", "2", "3", "4", "5", "6", "7", "8", "9", "+", "-", "."}
Letters ==
    {"a", "b", "c", "d", "e", "f", "g", "h", "i", "j", "k", "l", "m", "n", "o", "p", "q", "r", "s", "t", "u", "v", "w", "x", "y", "z"}

\* urllib.parse.uses_params
UsesParams ==
    {<<>>,
     <<"f", "t", "p">>,
     <<"h", "d", "l">>,
     <<"p", "r", "o", "s", "p", "e", "r", "o">>,
     <<"h", "t", "t", "p">>,
     <<"i", "m", "a", "p">>,
     <<"h", "t", "t", "p", "s">>,
     <<"s", "h", "t", "t", "p">>,
     <<"r", "t", "s", "p">>,
     <<"r", "t", "s", "p", "u">>,
     <<"s", "i", "p">>,
     <<"s", "i", "p", "s">>,
     <<"m", "m", "s">>,
     <<"s", "f", "t", "p">>,
     <<"t", "e", "l">>}

\* urlsplit: a leading "<scheme>:" is split off when every character before the
\* first ":" is a scheme character (and the first is a letter).
SchemeEnd(url) ==
    LET i == Find(url, ":")
    IN  IF i > 1 /\ url[1] \in Letters /\ \A j \in 1..(i - 1) : url[j] \in SchemeChars
        THEN i ELSE 0
UrlScheme(url) == Upto(url, SchemeEnd(url) - 1)
AfterScheme(url) == From(url, SchemeEnd(url) + 1)

\* urlsplit: after "//" the network location runs up to the first of "/", "?", "#".
AfterNetloc(rest) ==
    IF StartsWith(rest, <<"/", "/">>)
    THEN From(rest, 2 + Len(CutAt(From(rest, 3), {"/", "?", "#"})) + 1)
    ELSE rest

\* urlparse: for the schemes that take parameters, ";params" is cut off the last
\* path segment (_splitparams).
SplitParams(path) ==
    LET slashes == {i \in 1..Len(path) : path[i] = Slash}
        last == IF slashes = {} THEN 0 ELSE CHOOSE i \in slashes : \A j \in slashes : j <= i
        tail == From(path, last + 1)
    IN  Upto(path, last) \o CutAt(tail, {";"})

\* urlparse(url).path: what is left once scheme, network location, fragment,
\* query and parameters are split off.
UrlPath(url) ==
    LET p == CutAt(CutAt(AfterNetloc(AfterScheme(url)), {"#"}), {"?"})
    IN  IF UrlScheme(url) \in UsesParams THEN SplitParams(p) ELSE p

(* ------------------------- requests and remotes ------------------------ *)

\* The repository URLs a request may name.  The first two are different
\* repositories whose URLs give the same repository name.  The state holds a
\* URL as its index in UrlText.
UrlText ==
    << <<"h", "t", "t", "p", "s", ":", "/", "/", "a", ".", "i", "o", "/", "f", "o", "o", "/", "b", "a", "r", ".", "g", "i", "t">>,
       <<"h", "t", "t", "p", "s", ":", "/", "/", "b", ".", "i", "o", "/", "f", "o", "o", "/", "b", "a", "r", "/">>,
       <<"h", "t", "t", "p", "s", ":", "/", "/", "a", ".", "i", "o", "/", "b", "a", "z">> >>
Urls == DOMAIN UrlText

\* The overlapping calls modelled are calls for one repository.
ConcurrentUrls == {1}

\* The refs a request may name.
Refs == {<<"r", "1">>, <<"r", "2">>, <<"r", "3">>}

\* The commits each remote repository holds (a ref resolves in a clone of the
\* remote exactly when it is one of them).
RemoteRefs(url) == IF url = 2 THEN {<<"r", "1">>} ELSE {<<"r", "1">>, <<"r", "2">>}

\* The tree of ref r in the repository at remote url.
TreeOf(url, r) == <<url, r>>
NoTree == <<>>

(* ------------------------------ SCM paths ------------------------------ *)

None == <<>>
NoUrl == 0

\* get_worker_config().cachito_sources_dir, made absolute.
ArchivesDir == << <<"s", "r", "v">> >>

TarGz == <<".", "t", "a", "r", ".", "g", "z">>

\* Git.repo_name: the URL's path without surrounding "/" and a trailing ".git".
DotGit == <<".", "g", "i", "t">>

\* Lines 212-214 taking the ".git" off before the "/" are stripped.
RepoNameOfGitFirst(url) ==
    LET path == UrlPath(url)
    IN  Strip(IF EndsWith(path, DotGit) THEN Upto(path, Len(path) - Len(DotGit)) ELSE path,
              Slash)

RepoNameOf(url) ==
    LET repo == Strip(UrlPath(url), Slash)
    IN  IF EndsWith(repo, DotGit) THEN Upto(repo, Len(repo) - Len(DotGit)) ELSE repo

\* SCM.archive_name
ArchiveNameOf(ref) == ref \o TarGz

\* SCM.package_dir: archives_dir joined with the pieces of the repository name.
PackageDirOf(archives_dir, repo_name) == PathJoin(archives_dir, Split(repo_name, Slash))

\* SCM.archive_path
ArchivePathOf(package_dir, archive_name) == Append(package_dir, archive_name)

\* Every path fetch_source can resolve for the requests above.
AllPaths ==
    {ArchivePathOf(PackageDirOf(ArchivesDir, RepoNameOf(UrlText[u])), ArchiveNameOf(r)) :
        u \in Urls, r \in Refs}

DirName(path) == Upto(path, Len(path) - 1)
BaseName(path) == path[Len(path)]

(* ------------------------------- state --------------------------------- *)

\* The worker processes (Celery workers); each has its own os.environ, all share
\* the sources directory.
Procs == {"w1", "w2"}

VARIABLES
    fs,          \* the sources directory: path -> file
    clock,       \* the last timestamp the file system handed out
    env,         \* per process: os.environ['GIT_TERMINAL_PROMPT'], or "unset"
    pc,          \* per process: where its fetch_source call stands
    obj,         \* per process: the fields of its Git object
    call,        \* per process: the locals and the observable trace of its call
    concurrent,  \* whether calls of different workers may overlap
    lookup       \* a Git object whose repo_name is read, and the values read

vars == <<fs, clock, env, pc, obj, call, concurrent, lookup>>

\* A file of the sources directory.  kind: "absent"; "empty" (created, nothing
\* of the tar stream on disk yet); "truncated" (the stream starts with a
\* readable member header but is cut short); "valid" (written and closed).
\* top is the name of the top-level entry, tree the checked-out tree and remote
\* the origin remote of the repository packed in it, ctime its inode change time.
Absent == [kind |-> "absent", top |-> "", tree |-> NoTree, remote |-> NoUrl, ctime |-> 0]

\* tarfile.open(path, mode='w:gz'): the file is created, or cut to nothing.
OpenedFile(now) ==
    [kind |-> "empty", top |-> "", tree |-> NoTree, remote |-> NoUrl, ctime |-> now]

\* A working tree in the temporary directory: the directory's name, the origin
\* remote of its .git, the commit HEAD points at and the tree checked out.
NoRepo == [dir |-> "", remote |-> NoUrl, head |-> None, tree |-> NoTree]

\* SCM.__init__
NewObj(url, ref) ==
    [url |-> url, ref |-> ref, _archives_dir |-> None, _archive_path |-> None,
     _repo_name |-> None, _package_dir |-> None]

NoObj == NewObj(NoUrl, None)

\* The locals of a call that has not started: the branch taken, the previous
\* archive found, whether its temporary directory exists, the working tree in
\* it, the operations started so far ("extract", "clone", "fetch", "reset",
\* "write"), the operation that failed, how the call ended, and the process
\* environment and the sources directory as they were when it was entered.
\* prev is what the caller holds of the call it made just before for the same
\* request, when there was one: the path returned and the file it named.
NoPrev == [path |-> None, file |-> Absent]
NewCall ==
    [branch |-> "none", previous_archive |-> None, tmp |-> FALSE, repo |-> NoRepo,
     trace |-> <<>>, failed |-> "", outcome |-> "none", env0 |-> "unset", fs0 |-> <<>>,
     prev |-> NoPrev]

\* The outcomes of a call: "returned", or the exception that left it.  The three
\* CachitoError raised by the code differ in their message.
DomainErrors == {"CloneFailure", "FetchFailure", "InvalidReference"}
RawErrors == {"tarfile.ReadError", "EOFError", "git.NoSuchPathError", "OSError"}

(* ------------------------- memoized properties ------------------------- *)

\* Git.repo_name (memoized in _repo_name), url being the text of self.url.
RepoNameMemo(o, url) ==
    IF o._repo_name = None THEN [o EXCEPT !._repo_name = RepoNameOf(url)] ELSE o

WithRepoName(o) == RepoNameMemo(o, UrlText[o.url])

\* SCM.archives_dir (memoized in _archives_dir).
WithArchivesDir(o) ==
    IF o._archives_dir = None THEN [o EXCEPT !._archives_dir = ArchivesDir] ELSE o

\* SCM.package_dir (memoized in _package_dir).  os.makedirs creates the
\* directory when it is missing; the model holds files only, a directory is
\* there as soon as it is named.
WithPackageDir(o) ==
    IF o._package_dir = None
    THEN LET o2 == WithRepoName(WithArchivesDir(o))
         IN  [o2 EXCEPT !._package_dir = PackageDirOf(o2._archives_dir, o2._repo_name)]
    ELSE o

\* SCM.archive_path (memoized in _archive_path).
WithArchivePath(o) ==
    IF o._archive_path = None
    THEN LET o2 == WithPackageDir(o)
         IN  [o2 EXCEPT !._archive_path =
                            ArchivePathOf(o2._package_dir, ArchiveNameOf(o2.ref))]
    ELSE o

(* --------------------------- file system reads ------------------------- *)

\* os.path.exists(path)
Exists(f, path) == f[path].kind # "absent"

\* tarfile.is_tarfile(path): the file opens as a tar stream, which reads its
\* first member header and no more.
IsTarfile(f, path) == f[path].kind \in {"valid", "truncated"}

\* tarfile.open(path, mode='r:gz') + extractall(): the whole stream is read.
Extractable(f, path) == f[path].kind = "valid"

\* What tarfile raises on a file it cannot extract: ReadError("empty file")
\* on a file of no bytes, EOFError on a stream that is cut short.
ExtractError(f, path) == IF f[path].kind = "empty" THEN "tarfile.ReadError" ELSE "EOFError"

\* Line 182 with the is_tarfile test negated.
IsCachedNegated(f, path) == Exists(f, path) /\ ~IsTarfile(f, path)

\* fetch_source, line 182: the archive exists and is not corrupt.
IsCached(f, path) == Exists(f, path) /\ IsTarfile(f, path)

\* glob.glob(os.path.join(package_dir, '*.tar.gz'))
GlobTarGz(f, package_dir) ==
    {x \in DOMAIN f : Exists(f, x) /\ DirName(x) = package_dir /\ EndsWith(BaseName(x), TarGz)}

\* Lines 191-195 passing over the files that are no tar files.
PreviousArchiveValidOnly(f, package_dir) ==
    LET found == {x \in GlobTarGz(f, package_dir) : IsTarfile(f, x)}
    IN  IF found = {} THEN None
        ELSE CHOOSE x \in found : \A y \in found : f[y].ctime <= f[x].ctime

\* max(..., key=os.path.getctime, default=None)
PreviousArchive(f, package_dir) ==
    LET found == GlobTarGz(f, package_dir)
    IN  IF found = {} THEN None
        ELSE CHOOSE x \in found : \A y \in found : f[y].ctime <= f[x].ctime

(* ------------------------------- actions ------------------------------- *)

Idle(p) == pc[p] = "idle"

\* A call returns: the with block, if one was entered, removes the temporary
\* directory.
Returns(c) == [c EXCEPT !.tmp = FALSE, !.repo = NoRepo, !.outcome = "returned"]

\* The failure path without the with block: the exception leaves the call and
\* the temporary directory stays.
FailsKeepingTmp(c, step, exc) == [c EXCEPT !.failed = step, !.outcome = exc]

\* An operation of a call fails: the with block removes the temporary
\* directory and the exception exc leaves the call.
Fails(c, step, exc) ==
    [c EXCEPT !.tmp = FALSE, !.repo = NoRepo, !.failed = step, !.outcome = exc]

\* Git(url, ref): a worker takes a request.
Construct(p, u, r) ==
    /\ Idle(p)
    /\ concurrent \/ \A q \in Procs : Idle(q)
    /\ concurrent => u \in ConcurrentUrls
    /\ obj' = [obj EXCEPT ![p] = NewObj(u, r)]
    /\ call' = [call EXCEPT ![p] = NewCall]
    /\ pc' = [pc EXCEPT ![p] = "fetch_source"]
    /\ UNCHANGED <<fs, clock, env, concurrent, lookup>>

\* Git(url, ref) once more: the caller, holding the path a call has returned,
\* makes a new object for the same request at once.
ConstructAgain(p) ==
    /\ pc[p] = "done"
    /\ call[p].outcome = "returned"
    /\ call[p].prev = NoPrev
    /\ obj' = [obj EXCEPT ![p] = NewObj(obj[p].url, obj[p].ref)]
    /\ call' = [call EXCEPT ![p] =
                   [NewCall EXCEPT !.prev = [path |-> obj[p]._archive_path,
                                             file |-> fs[obj[p]._archive_path]]]]
    /\ pc' = [pc EXCEPT ![p] = "fetch_source"]
    /\ UNCHANGED <<fs, clock, env, concurrent, lookup>>

\* Lines 181-184 building the archive anew although it is there.
FetchSourceCachedRefresh(p) ==
    /\ pc[p] = "fetch_source"
    /\ IsCached(fs, WithArchivePath(obj[p])._archive_path)
    /\ obj' = [obj EXCEPT ![p] = WithArchivePath(obj[p])]
    /\ call' = [call EXCEPT ![p] =
                   [@ EXCEPT !.branch = "clone_and_archive", !.env0 = env[p], !.fs0 = fs]]
    /\ pc' = [pc EXCEPT ![p] = "clone_and_archive"]
    /\ UNCHANGED <<fs, clock, env, concurrent, lookup>>

\* fetch_source, lines 181-184: the archive is there and is a tar file.
FetchSourceCached(p) ==
    LET o == WithArchivePath(obj[p]) IN
    /\ pc[p] = "fetch_source"
    /\ IsCached(fs, o._archive_path)
    /\ obj' = [obj EXCEPT ![p] = o]
    /\ call' = [call EXCEPT ![p] =
                   Returns([@ EXCEPT !.branch = "cached", !.env0 = env[p], !.fs0 = fs])]
    /\ pc' = [pc EXCEPT ![p] = "done"]
    /\ UNCHANGED <<fs, clock, env, concurrent, lookup>>

\* Lines 197-200 ignoring the previous archive.
BranchAlwaysClone(previous_archive) == "clone_and_archive"

\* fetch_source, lines 186-200: which of update_and_archive and
\* clone_and_archive a cache miss leads to.
BranchOf(previous_archive) ==
    IF previous_archive # None THEN "update_and_archive" ELSE "clone_and_archive"

\* Lines 181-200 passing over the files another call has open for writing.
FetchSourceMissSkipsOpen(p) ==
    LET o == WithArchivePath(obj[p])
        closed == [x \in DOMAIN fs |->
                      IF \E q \in Procs \ {p} :
                            pc[q] \in {"adding", "closing"} /\ obj[q]._archive_path = x
                      THEN Absent ELSE fs[x]]
        previous_archive == PreviousArchive(closed, WithPackageDir(o)._package_dir)
    IN
    /\ pc[p] = "fetch_source"
    /\ ~IsCached(fs, o._archive_path)
    /\ obj' = [obj EXCEPT ![p] = o]
    /\ call' = [call EXCEPT ![p] =
                   [@ EXCEPT !.branch = BranchOf(previous_archive),
                             !.previous_archive = previous_archive,
                             !.env0 = env[p], !.fs0 = fs]]
    /\ pc' = [pc EXCEPT ![p] = BranchOf(previous_archive)]
    /\ UNCHANGED <<fs, clock, env, concurrent, lookup>>

\* fetch_source, lines 181-200: a cache miss looks for a previous archive.
FetchSourceMiss(p) ==
    LET o == WithArchivePath(obj[p])
        previous_archive == PreviousArchive(fs, WithPackageDir(o)._package_dir)
    IN
    /\ pc[p] = "fetch_source"
    /\ ~IsCached(fs, o._archive_path)
    /\ obj' = [obj EXCEPT ![p] = o]
    /\ call' = [call EXCEPT ![p] =
                   [@ EXCEPT !.branch = BranchOf(previous_archive),
                             !.previous_archive = previous_archive,
                             !.env0 = env[p], !.fs0 = fs]]
    /\ pc' = [pc EXCEPT ![p] = BranchOf(previous_archive)]
    /\ UNCHANGED <<fs, clock, env, concurrent, lookup>>

\* clone_and_archive, line 143: what os.environ['GIT_TERMINAL_PROMPT'] is once
\* the clone is about to start.
CloneEnv(e) == "0"

\* clone_and_archive, lines 140-146: the temporary directory is made, git is
\* told not to prompt and the clone is started.
CloneStart(p) ==
    /\ pc[p] = "clone_and_archive"
    /\ env' = [env EXCEPT ![p] = CloneEnv(@)]
    /\ call' = [call EXCEPT ![p] = [@ EXCEPT !.tmp = TRUE, !.trace = Append(@, "clone")]]
    /\ pc' = [pc EXCEPT ![p] = "cloning"]
    /\ UNCHANGED <<fs, clock, obj, concurrent, lookup>>

\* clone_and_archive, line 146: Repo.clone_from(url, temp_dir/repo,
\* no_checkout=True) succeeds: history, no checked-out tree.
CloneOk(p) ==
    /\ pc[p] = "cloning"
    /\ call' = [call EXCEPT ![p].repo =
                   [dir |-> "repo", remote |-> obj[p].url, head |-> None, tree |-> NoTree]]
    /\ pc' = [pc EXCEPT ![p] = "_reset_git_head"]
    /\ UNCHANGED <<fs, clock, env, obj, concurrent, lookup>>

\* clone_and_archive, lines 147-149: the clone fails.
CloneFail(p) ==
    /\ pc[p] = "cloning"
    /\ call' = [call EXCEPT ![p] = Fails(@, "clone", "CloneFailure")]
    /\ pc' = [pc EXCEPT ![p] = "done"]
    /\ UNCHANGED <<fs, clock, env, obj, concurrent, lookup>>

\* update_and_archive, line 163 on: what os.environ['GIT_TERMINAL_PROMPT'] is
\* once the fetch is about to start (the method does not touch it).
UpdateEnv(e) == e

\* update_and_archive, lines 163-169: the previous archive is extracted into a
\* temporary directory, temp_dir/app is opened and the fetch from its remote
\* is started.
UpdateStart(p) ==
    LET seed == call[p].previous_archive IN
    /\ pc[p] = "update_and_archive"
    /\ Extractable(fs, seed) /\ fs[seed].top = "app"
    /\ env' = [env EXCEPT ![p] = UpdateEnv(@)]
    /\ call' = [call EXCEPT ![p] =
                   [@ EXCEPT !.tmp = TRUE, !.trace = @ \o <<"extract", "fetch">>,
                             !.repo = [dir |-> "app", remote |-> fs[seed].remote,
                                       head |-> fs[seed].tree[2], tree |-> fs[seed].tree]]]
    /\ pc' = [pc EXCEPT ![p] = "fetching"]
    /\ UNCHANGED <<fs, clock, obj, concurrent, lookup>>

\* update_and_archive, lines 164-167: the previous archive cannot be read to
\* its end, or holds no app directory to open; the exception of tarfile or of
\* git leaves the call as it is (neither statement is in a try block).
ExtractFail(p) ==
    LET seed == call[p].previous_archive IN
    /\ pc[p] = "update_and_archive"
    /\ ~(Extractable(fs, seed) /\ fs[seed].top = "app")
    /\ call' = [call EXCEPT ![p] =
                   IF Extractable(fs, seed)
                   THEN Fails([@ EXCEPT !.tmp = TRUE, !.trace = Append(@, "extract")],
                              "open_repo", "git.NoSuchPathError")
                   ELSE Fails([@ EXCEPT !.tmp = TRUE, !.trace = Append(@, "extract")],
                              "extract", ExtractError(fs, seed))]
    /\ pc' = [pc EXCEPT ![p] = "done"]
    /\ UNCHANGED <<fs, clock, env, obj, concurrent, lookup>>

\* update_and_archive, line 169: repo.remote().fetch() succeeds.
FetchOk(p) ==
    /\ pc[p] = "fetching"
    /\ pc' = [pc EXCEPT ![p] = "_reset_git_head"]
    /\ UNCHANGED <<fs, clock, env, obj, call, concurrent, lookup>>

\* Lines 170-172 falling back to a fresh clone when the fetch fails.
FetchFailThenClone(p) ==
    /\ pc[p] = "fetching"
    /\ pc' = [pc EXCEPT ![p] = "clone_and_archive"]
    /\ UNCHANGED <<fs, clock, env, obj, call, concurrent, lookup>>

\* update_and_archive, lines 170-172: the fetch fails.
FetchFail(p) ==
    /\ pc[p] = "fetching"
    /\ call' = [call EXCEPT ![p] = Fails(@, "fetch", "FetchFailure")]
    /\ pc' = [pc EXCEPT ![p] = "done"]
    /\ UNCHANGED <<fs, clock, env, obj, concurrent, lookup>>

\* Line 115 with the failure to resolve the ref swallowed.
ResolvesAnything(repo, ref) == TRUE

\* repo.commit(ref): the ref resolves in the history the working tree has,
\* which is that of its origin remote.
Resolves(repo, ref) == ref \in RemoteRefs(repo.remote)

\* _reset_git_head, lines 115-116: HEAD is moved to the commit and index and
\* working tree are reset to it.
ResetOk(p) ==
    /\ pc[p] = "_reset_git_head"
    /\ Resolves(call[p].repo, obj[p].ref)
    /\ call' = [call EXCEPT ![p] =
                   [@ EXCEPT !.trace = Append(@, "reset"),
                             !.repo = [@ EXCEPT !.head = obj[p].ref,
                                                !.tree = TreeOf(call[p].repo.remote,
                                                                obj[p].ref)]]]
    /\ pc' = [pc EXCEPT ![p] = "_create_archive"]
    /\ UNCHANGED <<fs, clock, env, obj, concurrent, lookup>>

\* Lines 117-122 logging the failure and going on to the archive.
ResetFailSwallowed(p) ==
    /\ pc[p] = "_reset_git_head"
    /\ ~Resolves(call[p].repo, obj[p].ref)
    /\ call' = [call EXCEPT ![p].trace = Append(@, "reset")]
    /\ pc' = [pc EXCEPT ![p] = "_create_archive"]
    /\ UNCHANGED <<fs, clock, env, obj, concurrent, lookup>>

\* _reset_git_head, lines 117-122: the ref does not resolve.
ResetFail(p) ==
    /\ pc[p] = "_reset_git_head"
    /\ ~Resolves(call[p].repo, obj[p].ref)
    /\ call' = [call EXCEPT ![p] = Fails([@ EXCEPT !.trace = Append(@, "reset")], "reset", "InvalidReference")]
    /\ pc' = [pc EXCEPT ![p] = "done"]
    /\ UNCHANGED <<fs, clock, env, obj, concurrent, lookup>>

\* Line 132 without the arcname: the entry is named as the working directory.
ArcNameOfDir(repo) == repo.dir

\* _create_archive, line 132: bundle_archive.add(from_dir, 'app') names the
\* top-level entry of the archive.
ArcName(repo) == "app"

\* _create_archive, lines 131-132, once the with block has closed the archive:
\* the working directory, .git included, under its top-level entry.
WrittenFile(repo, now) ==
    [kind |-> "valid", top |-> ArcName(repo), tree |-> repo.tree, remote |-> repo.remote,
     ctime |-> now]

\* Line 131 opening the previous archive, when there is one, for writing.
CreateArchiveOpenAtSeed(p) ==
    /\ pc[p] = "_create_archive"
    /\ clock < MaxClock
    /\ clock' = clock + 1
    /\ fs' = [fs EXCEPT ![IF call[p].previous_archive # None
                          THEN call[p].previous_archive
                          ELSE obj[p]._archive_path] = OpenedFile(clock')]
    /\ call' = [call EXCEPT ![p].trace = Append(@, "write")]
    /\ pc' = [pc EXCEPT ![p] = "adding"]
    /\ UNCHANGED <<env, obj, concurrent, lookup>>

\* _create_archive, line 131: tarfile.open(archive_path, mode='w:gz') creates
\* the file, or cuts an existing one to nothing.
CreateArchiveOpen(p) ==
    /\ pc[p] = "_create_archive"
    /\ clock < MaxClock
    /\ clock' = clock + 1
    /\ fs' = [fs EXCEPT ![obj[p]._archive_path] = OpenedFile(clock')]
    /\ call' = [call EXCEPT ![p].trace = Append(@, "write")]
    /\ pc' = [pc EXCEPT ![p] = "adding"]
    /\ UNCHANGED <<env, obj, concurrent, lookup>>

\* _create_archive, line 131: the file cannot be opened for writing (permission
\* denied, no space for a new file); OSError leaves the call as it is.
CreateArchiveOpenFail(p) ==
    /\ pc[p] = "_create_archive"
    /\ call' = [call EXCEPT ![p] = Fails([@ EXCEPT !.trace = Append(@, "write")], "write", "OSError")]
    /\ pc' = [pc EXCEPT ![p] = "done"]
    /\ UNCHANGED <<fs, clock, env, obj, concurrent, lookup>>

\* _create_archive, line 132: the first part of the tar stream reaches the disk.
CreateArchiveAdd(p) ==
    /\ pc[p] = "adding"
    /\ clock < MaxClock
    /\ clock' = clock + 1
    /\ fs' = [fs EXCEPT ![obj[p]._archive_path] =
                 [@ EXCEPT !.kind = "truncated", !.ctime = clock']]
    /\ pc' = [pc EXCEPT ![p] = "closing"]
    /\ UNCHANGED <<env, obj, call, concurrent, lookup>>

\* _create_archive, lines 131-132: the rest is written and the with block
\* closes the archive; clone_and_archive or update_and_archive returns.
CreateArchiveClose(p) ==
    /\ pc[p] = "closing"
    /\ clock < MaxClock
    /\ clock' = clock + 1
    /\ fs' = [fs EXCEPT ![obj[p]._archive_path] = WrittenFile(call[p].repo, clock')]
    /\ call' = [call EXCEPT ![p] = Returns(@)]
    /\ pc' = [pc EXCEPT ![p] = "done"]
    /\ UNCHANGED <<env, obj, concurrent, lookup>>

\* _create_archive, line 132: writing fails part-way (disk full, I/O error).
\* The with block closes the file as far as it got, nothing removes it, and
\* OSError leaves the call as it is.
CreateArchiveWriteFail(p) ==
    /\ pc[p] \in {"adding", "closing"}
    /\ call' = [call EXCEPT ![p] = Fails(@, "write", "OSError")]
    /\ pc' = [pc EXCEPT ![p] = "done"]
    /\ UNCHANGED <<fs, clock, env, obj, concurrent, lookup>>

\* The caller has the result (the archive path, or the exception); the Git
\* object and the locals of the call are gone, the process and its
\* environment live on.
Return(p) ==
    /\ pc[p] = "done"
    /\ obj' = [obj EXCEPT ![p] = NoObj]
    /\ call' = [call EXCEPT ![p] = NewCall]
    /\ pc' = [pc EXCEPT ![p] = "idle"]
    /\ UNCHANGED <<fs, clock, env, concurrent, lookup>>

(* ------------------------- repo_name on any URL ------------------------ *)

\* The URLs repo_name is read for: a scheme and host or none, a path of up to
\* MaxBody characters, and an ending; and an https URL of two path segments,
\* with ".git" and without.
MaxBody == 3
MaxAccesses == 2
BodyChars == {"/", "a", "."}
Bodies == UNION {[1..n -> BodyChars] : n \in 0..MaxBody}
UrlHeads == {<<>>, <<"h", ":", "/", "/", "a">>, <<"h", ":">>, <<"/", "/", "a">>}
UrlTails ==
    {<<>>, DotGit, DotGit \o <<"/">>, DotGit \o DotGit, <<"g", "i", "t">>,
     <<"/">> \o DotGit, DotGit \o <<"?", "a">>, DotGit \o <<"#", "a">>,
     DotGit \o <<";", "a">>, <<"/", "/">>}
ExampleHost ==
    <<"h", "t", "t", "p", "s", ":", "/", "/", "e", "x", "a", "m", "p", "l", "e", ".",
      "c", "o", "m">>
ExampleGit == ExampleHost \o <<"/", "f", "o", "o", "/", "b", "a", "r">> \o DotGit
ExamplePlain == ExampleHost \o <<"/", "f", "o", "o", "/", "b", "a", "r">>
UrlInputs ==
    {h \o b \o e : h \in UrlHeads, b \in Bodies, e \in UrlTails}
        \cup {ExampleGit, ExamplePlain}
Refs1 == <<"r", "1">>

NoLookup == [o |-> NoObj, seen |-> <<>>]

\* self.repo_name is read once more (lines 209-215).
RepoNameAccess ==
    /\ Len(lookup.seen) < MaxAccesses
    /\ LET o == RepoNameMemo(lookup.o, lookup.o.url)
       IN  lookup' = [o |-> o, seen |-> Append(lookup.seen, o._repo_name)]
    /\ UNCHANGED <<fs, clock, env, pc, obj, call, concurrent>>

(* ---------------------------- specification ---------------------------- *)

TypeOK ==
    /\ clock \in 0..MaxClock
    /\ DOMAIN fs = AllPaths
    /\ \A x \in AllPaths : fs[x].kind \in {"absent", "empty", "truncated", "valid"}
    /\ env \in [Procs -> {"unset", "0"}]
    /\ \A p \in Procs : call[p].outcome \in {"none", "returned"} \cup DomainErrors \cup RawErrors
    /\ concurrent \in BOOLEAN

InitCommon ==
    /\ fs = [x \in AllPaths |-> Absent]
    /\ clock = 0
    /\ env = [p \in Procs |-> "unset"]
    /\ pc = [p \in Procs |-> "idle"]
    /\ obj = [p \in Procs |-> NoObj]
    /\ call = [p \in Procs |-> NewCall]

\* Calls follow one another: a worker takes a request when no call is running.
Init == InitCommon /\ concurrent = FALSE /\ lookup = NoLookup

\* Calls of the two workers may overlap.
InitConcurrent == InitCommon /\ concurrent = TRUE /\ lookup = NoLookup

Next ==
    \E p \in Procs :
        \/ \E u \in Urls, r \in Refs : Construct(p, u, r)
        \/ ConstructAgain(p)
        \/ FetchSourceCached(p)
        \/ FetchSourceMiss(p)
        \/ CloneStart(p)
        \/ CloneOk(p)
        \/ CloneFail(p)
        \/ UpdateStart(p)
        \/ ExtractFail(p)
        \/ FetchOk(p)
        \/ FetchFail(p)
        \/ ResetOk(p)
        \/ ResetFail(p)
        \/ CreateArchiveOpen(p)
        \/ CreateArchiveOpenFail(p)
        \/ CreateArchiveAdd(p)
        \/ CreateArchiveClose(p)
        \/ CreateArchiveWriteFail(p)
        \/ Return(p)

Spec == Init /\ [][Next]_vars

\* repo_name on its own: a Git object for any of the URLs above, whose
\* repo_name is read again and again.
InitRepoName ==
    /\ InitCommon /\ concurrent = FALSE
    /\ lookup \in {[o |-> NewObj(url, Refs1), seen |-> <<>>] : url \in UrlInputs}

NextRepoName == RepoNameAccess

SpecRepoName == InitRepoName /\ [][NextRepoName]_vars

SpecConcurrent == InitConcurrent /\ [][Next]_vars

(* ------------------------------ properties ----------------------------- *)

Done(p) == pc[p] = "done"

\* The request of p's call and what it found when it was entered.
PathOf(p) == obj[p]._archive_path
DirOf(p) == obj[p]._package_dir
Before(p) == call[p].fs0

\* The file is there and opens as a tar file.
OpensAsTar(f, path) == f[path].kind \in {"valid", "truncated"}
\* The file is there and is no complete archive.
Corrupt(f, path) == f[path].kind \in {"empty", "truncated"}
\* The *.tar.gz files of a directory.
ArchivesIn(f, dir) == {x \in AllPaths : DirName(x) = dir /\ f[x].kind # "absent"}
\* The network operations a call has started.
NetOps(p) == SelectSeq(call[p].trace, LAMBDA e : e \in {"clone", "fetch"})
\* The remote of the working tree the call resets: the URL cloned, or the
\* origin of the previous archive.
WorkRemote(p) ==
    IF call[p].branch = "clone_and_archive" THEN obj[p].url
    ELSE Before(p)[call[p].previous_archive].remote
InTrace(p, e) == \E i \in 1..Len(call[p].trace) : call[p].trace[i] = e

\* C1: a call that finds a file that opens as a tar file at archive_path
\* returns, has started no clone and no fetch, and leaves every file of the
\* sources directory as it was.
C1_CachedCallChangesNothing ==
    \A p \in Procs :
        Done(p) /\ OpensAsTar(Before(p), PathOf(p)) =>
            /\ call[p].outcome = "returned"
            /\ call[p].trace = <<>>
            /\ fs = Before(p)

C1_Witness ==
    \E p \in Procs :
        /\ Done(p) /\ call[p].branch = "cached"
        /\ Before(p)[PathOf(p)].kind = "valid"
        /\ Cardinality(ArchivesIn(fs, DirOf(p))) > 1

\* C2: when fetch_source returns normally, a valid, completely written archive
\* is at archive_path.
C2_ReturnLeavesValidArchive ==
    \A p \in Procs :
        Done(p) /\ call[p].outcome = "returned" => fs[PathOf(p)].kind = "valid"

\* C3: a corrupt file at archive_path is a cache miss and always leads to
\* regeneration: the call does not return it as it is and goes on to the clone
\* or to the fetch that regenerates the archive, whatever else is in
\* package_dir.
C3_CorruptFileIsRegenerated ==
    \A p \in Procs :
        Done(p) /\ Corrupt(Before(p), PathOf(p)) =>
            /\ call[p].branch # "cached"
            /\ NetOps(p) # <<>>

\* C4: after fetch_source has raised, the file at archive_path is absent or a
\* complete valid archive.
C4_NoPartialArchiveAfterError ==
    \A p \in Procs :
        Done(p) /\ call[p].outcome # "returned" =>
            fs[PathOf(p)].kind \in {"absent", "valid"}

\* C5: when the reset is reached with a ref that does not resolve in the
\* working tree's history, the call fails with the InvalidReference error and
\* no file is at archive_path, after a clone and after an update alike.
C5_InvalidRefRaisesAndLeavesNoFile ==
    \A p \in Procs :
        Done(p) /\ InTrace(p, "reset") /\ obj[p].ref \notin RemoteRefs(WorkRemote(p)) =>
            /\ call[p].outcome = "InvalidReference"
            /\ fs[PathOf(p)].kind = "absent"
            /\ fs = Before(p)

\* An update whose previous archive was cached for the other URL of the same
\* repository name has failed at the reset.
C5_Witness ==
    \E p \in Procs :
        /\ Done(p) /\ call[p].branch = "update_and_archive" /\ call[p].failed = "reset"
        /\ obj[p].ref \notin RemoteRefs(WorkRemote(p))
        /\ ArchivesIn(fs, DirOf(p)) # {}

\* C6: whatever fails, the exception that leaves fetch_source is the domain
\* error, never an exception of tarfile, git or the operating system.
C6_EveryFailureIsDomainError ==
    \A p \in Procs : Done(p) => call[p].outcome \in {"returned"} \cup DomainErrors

\* C7: while a clone or a fetch of a process is under way, GIT_TERMINAL_PROMPT
\* is "0" in that process.
C7_NetworkOpsNeverPrompt ==
    \A p \in Procs : pc[p] \in {"cloning", "fetching"} => env[p] = "0"

\* C8: once a call has returned or raised, the environment of its process is
\* what it was when the call was entered.
C8_EnvironmentRestored ==
    \A p \in Procs : Done(p) => env[p] = call[p].env0

C10_OneNetworkOpNoRetry ==
    \A p \in Procs :
        /\ Len(NetOps(p)) <= 1
        /\ Done(p) /\ NetOps(p) = <<"fetch">> /\ ~InTrace(p, "reset") =>
              /\ call[p].outcome = "FetchFailure"
              /\ call[p].trace = <<"extract", "fetch">>
              /\ fs = Before(p)
        /\ Done(p) /\ NetOps(p) = <<"clone">> /\ ~InTrace(p, "reset") =>
              /\ call[p].outcome = "CloneFailure"
              /\ call[p].trace = <<"clone">>
              /\ fs = Before(p)

\* A fetch has failed in a process that has cloned in an earlier call.
C10_Witness ==
    \E p \in Procs :
        /\ Done(p) /\ call[p].failed = "fetch" /\ call[p].outcome = "FetchFailure"
        /\ env[p] = "0"

\* C11: once a call has finished, by returning or by raising at whatever
\* operation, the temporary directory it made no longer exists.
C11_TempDirReleased ==
    \A p \in Procs : Done(p) => ~call[p].tmp /\ call[p].repo = NoRepo

\* A call that had cloned into its temporary directory and reset the working
\* tree has failed while writing the archive.
C11_Witness ==
    \E p \in Procs :
        /\ Done(p) /\ call[p].failed = "write" /\ call[p].outcome = "OSError"
        /\ InTrace(p, "clone") /\ InTrace(p, "reset")
        /\ ~call[p].tmp

\* C12: a call that follows at once on a call that returned, for the same URL
\* and ref, resolves the same archive_path, returns, starts no clone and no
\* fetch, and leaves the archive as the first call left it.
C12_RepeatedCallIsIdempotent ==
    \A p \in Procs :
        Done(p) /\ call[p].prev # NoPrev =>
            /\ PathOf(p) = call[p].prev.path
            /\ call[p].outcome = "returned"
            /\ NetOps(p) = <<>>
            /\ fs[PathOf(p)] = call[p].prev.file
            /\ fs = Before(p)

\* The second of two calls for one request has finished; the first had built
\* the archive.
C12_Witness ==
    \E p \in Procs :
        /\ Done(p) /\ call[p].prev # NoPrev
        /\ call[p].prev.file.kind = "valid"
        /\ call[p].prev.file.tree = TreeOf(obj[p].url, obj[p].ref)

\* C13: with calls following one another, no step changes a complete archive,
\* and a step changes no file but the one at the archive_path of the call that
\* takes it: the archives of other refs, the previous archive extracted among
\* them, stay as they are whether the call succeeds or fails.
C13_ArchivesAreNeverRewritten ==
    [][\A x \in AllPaths :
          /\ fs[x].kind = "valid" => fs'[x] = fs[x]
          /\ fs'[x] # fs[x] =>
                \E p \in Procs : pc[p] \notin {"idle", "done"} /\ x = PathOf(p)]_vars

\* A call has built its archive from a previous archive of another ref, and
\* the previous archive is as it was.
C13_Witness ==
    \E p \in Procs :
        LET seed == call[p].previous_archive IN
        /\ Done(p) /\ call[p].branch = "update_and_archive"
        /\ call[p].outcome = "returned"
        /\ seed # PathOf(p)
        /\ Before(p)[seed].kind = "valid" /\ fs[seed] = Before(p)[seed]
        /\ fs[PathOf(p)].kind = "valid"

\* C14: a call that returns after cloning or after updating a previous archive
\* leaves an archive whose one top-level entry is named app and holds the tree
\* of the requested ref, whatever the working directory was called and
\* whatever ref the previous archive was at.
C14_ArchiveHoldsAppAtRequestedRef ==
    \A p \in Procs :
        Done(p) /\ call[p].outcome = "returned" /\ call[p].branch # "cached" =>
            /\ fs[PathOf(p)].kind = "valid"
            /\ fs[PathOf(p)].top = "app"
            /\ fs[PathOf(p)].tree = TreeOf(WorkRemote(p), obj[p].ref)

\* A call has returned after updating a previous archive that was at another
\* ref.
C14_Witness ==
    \E p \in Procs :
        LET seed == call[p].previous_archive IN
        /\ Done(p) /\ call[p].outcome = "returned"
        /\ call[p].branch = "update_and_archive"
        /\ Before(p)[seed].tree[2] # obj[p].ref
        /\ fs[PathOf(p)].tree[2] = obj[p].ref
        /\ fs[PathOf(p)].top = "app"

\* C15: for every URL, repo_name is the path component of the URL with the
\* "/" at both ends stripped and then one ".git" taken off the end when the
\* rest ends so; https://example.com/foo/bar.git and https://example.com/foo/bar
\* both give foo/bar; and every later read gives what the first gave.
StrippedOf(path) ==
    {s \in {SubSeq(path, a, b) : a \in 1..(Len(path) + 1), b \in 0..Len(path)} :
        \E i, j \in 0..Len(path) :
            /\ i + j <= Len(path)
            /\ \A k \in 1..i : path[k] = "/"
            /\ \A k \in (Len(path) - j + 1)..Len(path) : path[k] = "/"
            /\ s = SubSeq(path, i + 1, Len(path) - j)
            /\ s = <<>> \/ (s[1] # "/" /\ s[Len(s)] # "/")}
WithoutDotGit(s) ==
    IF Len(s) >= 4 /\ SubSeq(s, Len(s) - 3, Len(s)) = <<".", "g", "i", "t">>
    THEN SubSeq(s, 1, Len(s) - 4)
    ELSE s
FooBar == <<"f", "o", "o", "/", "b", "a", "r">>
C15_RepoNameIsStrippedPath ==
    \A i \in 1..Len(lookup.seen) :
        /\ \E s \in StrippedOf(UrlPath(lookup.o.url)) : lookup.seen[i] = WithoutDotGit(s)
        /\ lookup.o.url \in {ExampleGit, ExamplePlain} => lookup.seen[i] = FooBar
        /\ lookup.seen[i] = lookup.seen[1]

\* repo_name has been read twice for a URL whose path ends in ".git.git".
C15_Witness ==
    /\ Len(lookup.seen) = 2
    /\ lookup.o.url = <<"h", ":", "/", "/", "a", "/", "a">> \o DotGit \o DotGit
    /\ lookup.seen[2] = <<"a", ".", "g", "i", "t">>

\* C16: a call writes its archive only after its own reset to the requested
\* ref has succeeded: the write comes after a clone or fetch and a reset in
\* the call's operations, the working tree is at the requested ref from the
\* moment the archive is about to be opened until it is closed, and a call
\* whose extraction, clone, fetch or reset failed has started no write.
C16_WriteOnlyAfterReset ==
    \A p \in Procs :
        /\ \A i \in 1..Len(call[p].trace) :
              call[p].trace[i] = "write" =>
                  \E j \in 1..(i - 1), k \in 1..(i - 1) :
                      /\ k < j
                      /\ call[p].trace[k] \in {"clone", "fetch"}
                      /\ call[p].trace[j] = "reset"
        /\ pc[p] \in {"_create_archive", "adding", "closing"} =>
              /\ call[p].repo.head = obj[p].ref
              /\ call[p].repo.tree[2] = obj[p].ref
        /\ call[p].failed \in {"extract", "open_repo", "clone", "fetch", "reset"} =>
              ~InTrace(p, "write")

\* A call that fetched into a previous archive at another ref and reset the
\* working tree is in the middle of writing its archive.
C16_Witness ==
    \E p \in Procs :
        /\ pc[p] = "closing"
        /\ call[p].trace = <<"extract", "fetch", "reset", "write">>
        /\ fs[call[p].previous_archive].tree[2] # obj[p].ref
        /\ call[p].repo.head = obj[p].ref

\* C17: on a miss the previous archive is the *.tar.gz file of package_dir
\* with the greatest ctime, whatever ref it belongs to and whether or not it
\* can be read as an archive; there is none exactly when the directory holds
\* no such file.
C17_SeedIsNewestFile ==
    \A p \in Procs :
        call[p].branch \in {"clone_and_archive", "update_and_archive"} =>
            LET found == ArchivesIn(Before(p), DirOf(p))
                seed == call[p].previous_archive
            IN  /\ found = {} <=> seed = None
                /\ found # {} =>
                      /\ seed \in found
                      /\ \A y \in found : Before(p)[y].ctime <= Before(p)[seed].ctime

\* A miss for one ref in a directory that holds a complete, older archive of
\* a second ref and a newer file of a third that is cut short: the newer one
\* was taken.
C17_Witness ==
    \E p \in Procs :
        LET found == ArchivesIn(Before(p), DirOf(p))
            seed == call[p].previous_archive
        IN  /\ call[p].branch = "update_and_archive"
            /\ seed # PathOf(p)
            /\ Before(p)[seed].kind = "truncated"
            /\ \E y \in found :
                  /\ y # seed /\ y # PathOf(p)
                  /\ Before(p)[y].kind = "valid"
                  /\ Before(p)[y].ctime < Before(p)[seed].ctime

\* C18: with calls of two workers overlapping, a call that misses while
\* another call, for another ref of the same repository, is in the middle of
\* writing the newest file of the directory goes on, and takes that file as
\* its previous archive.
C18_MidWriteSeedIsSelected ==
    [][\A p \in Procs : \A q \in Procs \ {p} :
          (/\ pc[p] = "fetch_source" /\ pc'[p] \notin {"fetch_source", "done"}
           /\ pc[q] \in {"adding", "closing"}
           /\ DirName(PathOf(q)) = obj'[p]._package_dir
           /\ \A y \in ArchivesIn(fs, DirName(PathOf(q))) :
                 fs[y].ctime <= fs[PathOf(q)].ctime)
          => /\ pc'[p] = "update_and_archive"
             /\ call'[p].previous_archive = PathOf(q)]_vars

\* One call has selected as its previous archive the file that another call,
\* for another ref of the same repository, has opened and not yet closed.
C18_Witness ==
    \E p \in Procs : \E q \in Procs \ {p} :
        /\ pc[p] = "update_and_archive"
        /\ pc[q] \in {"adding", "closing"}
        /\ call[p].previous_archive = PathOf(q)
        /\ obj[p].url = obj[q].url /\ obj[p].ref # obj[q].ref
        /\ Corrupt(fs, PathOf(q))

\* C19: the complete archive a call that returned finds at its archive_path
\* holds the tree of the requested ref in the repository at the requested URL,
\* also when another URL gives the same repository name.
C19_ArchiveIsFromRequestedUrl ==
    \A p \in Procs :
        Done(p) /\ call[p].outcome = "returned" /\ fs[PathOf(p)].kind = "valid" =>
            /\ fs[PathOf(p)].remote = obj[p].url
            /\ fs[PathOf(p)].tree = TreeOf(obj[p].url, obj[p].ref)

====
